---- MODULE Spec2Model ----
(***************************************************************************)
(* A model of the Matrimonial API (src/main.py): the four collections of   *)
(* the document store, the request handlers translated from their code,    *)
(* and the properties of the swipe / match state machine, of discovery, of *)
(* accounts and of sessions.                                               *)
(*                                                                         *)
(* Conventions.                                                            *)
(*   - An Optional value is a sequence of length at most one: None is <<>> *)
(*     and a present value x is <<x>>.  find_one returns such a value.     *)
(*   - A collection is the sequence of its documents in insertion order,   *)
(*     which is the order an unsorted find() scans them in.                *)
(*   - An ObjectId is <<"ObjectId", n>>; str() of it is the string id n    *)
(*     (a number here), ObjectId(n) parses it back.  The store hands out   *)
(*     the ids 1, 2, 3, ... in insertion order.                            *)
(*   - A string that the code scans (an e-mail address, an Authorization   *)
(*     header) is a sequence of chunks.                                    *)
(***************************************************************************)
EXTENDS Integers, Sequences, FiniteSets, TLC

VARIABLES
    db,     \* the store: db.user, db.session, db.swipe, db.match
    now,    \* the clock read by now_utc(), in days
    resp,   \* the last response sent, with the request it answers
    req     \* the swipe requests in flight, one slot per worker

vars == <<db, now, resp, req>>

----------------------------------------------------------------------------
(* Bounds of the model.                                                    *)

MaxSwipes == 3          \* swipe records written by sequential requests
MaxConcSwipes == 3      \* swipe records written by concurrent requests
MaxDiscoverSwipes == 2  \* swipe records written in the large-store model
MaxServiceSwipes == 1   \* swipe records written in the whole-service model
MaxSessions == 4        \* sessions held in the whole-service model
MaxDay == 10            \* last day of the clock in the session model
MaxClockSessions == 5   \* sessions held in the session model
MaxSignups == 3         \* user records written by concurrent signups

(* Program constants.                                                      *)

DiscoverLimit == 50     \* .limit(50) of discover
SessionDays == 7        \* timedelta(days=7) of login

----------------------------------------------------------------------------
(* Values.                                                                 *)

None == <<>>
Some(x) == <<x>>

ObjectId(s) == <<"ObjectId", s>>
str(oid) == oid[2]

Range(s) == {s[i] : i \in DOMAIN s}

(* hashlib.sha256(password).hexdigest(): a fixed function of the password, *)
(* taken to be injective on the passwords of the model.                    *)
hash_password(password) == <<"sha256", password>>

(* now_utc() + timedelta(days=7)                                           *)
expiry(t) == t + SessionDays

(* str.lower() on one character chunk and on a string: every upper-case    *)
(* letter becomes its lower-case letter, every other chunk stays.  The     *)
(* chunks of the model are ASCII characters and digit strings.             *)
ascii_uppercase ==
    <<"A", "B", "C", "D", "E", "F", "G", "H", "I", "J", "K", "L", "M",
      "N", "O", "P", "Q", "R", "S", "T", "U", "V", "W", "X", "Y", "Z">>

ascii_lowercase ==
    <<"a", "b", "c", "d", "e", "f", "g", "h", "i", "j", "k", "l", "m",
      "n", "o", "p", "q", "r", "s", "t", "u", "v", "w", "x", "y", "z">>

lower_char(c) ==
    IF \E i \in DOMAIN ascii_uppercase : ascii_uppercase[i] = c
    THEN ascii_lowercase[CHOOSE i \in DOMAIN ascii_uppercase :
                             ascii_uppercase[i] = c]
    ELSE c

lower(s) == [i \in DOMAIN s |-> lower_char(s[i])]

(* secrets.token_urlsafe(32): a fresh random token; the n-th call is taken *)
(* to return a value no earlier call returned.                             *)
token_urlsafe(n) == "tok" \o ToString(n)

(* authorization.replace("Bearer ", ""): every "Bearer " chunk is removed. *)
replace_bearer(authorization) ==
    SelectSeq(authorization, LAMBDA w : w # "Bearer ")

----------------------------------------------------------------------------
(* The store's operations.                                                 *)

(* collection.find(filter) is SelectSeq(collection, filter): the matching  *)
(* documents in store order.  collection.find_one(filter) is the first of  *)
(* them, or None: find_one takes the matching documents.                   *)
find_one(hits) == IF hits = <<>> THEN None ELSE Some(hits[1])

(* collection.insert_one(doc)                                              *)
insert_one(coll, doc) == Append(coll, doc)

(* cursor.limit(n)                                                         *)
limit(docs, n) == IF Len(docs) <= n THEN docs ELSE SubSeq(docs, 1, n)

(* A projection {field: 0}: the document without that field.               *)
without(doc, fields) == [f \in (DOMAIN doc) \ fields |-> doc[f]]

EmptyDb == [user |-> <<>>, session |-> <<>>, swipe |-> <<>>, match |-> <<>>]

----------------------------------------------------------------------------
(* Responses.  A handler maps the store, the clock and its inputs to the   *)
(* store it leaves and the response it sends.                              *)

HTTPException(d, status_code, detail) ==
    [db |-> d, status |-> status_code, body |-> [detail |-> detail]]

Return(d, body) == [db |-> d, status |-> 200, body |-> body]

----------------------------------------------------------------------------
(* Auth helper.                                                            *)

(* A variant that accepts a session on the instant it expires.             *)
get_current_user_inclusive(d, t, authorization) ==
    IF authorization = None \/ authorization[1] = <<>>
    THEN [status |-> 401, detail |-> "Missing authorization header", user |-> None]
    ELSE
      LET token   == replace_bearer(authorization[1])
          session == find_one(SelectSeq(d.session,
                              LAMBDA s : s.token = token /\ s.expires_at >= t))
      IN  IF session = None
          THEN [status |-> 401, detail |-> "Invalid or expired token", user |-> None]
          ELSE
            LET user == find_one(SelectSeq(d.user,
                                 LAMBDA u : u._id = ObjectId(session[1].user_id)))
            IN  IF user = None
                THEN [status |-> 401, detail |-> "User not found", user |-> None]
                ELSE [status |-> 200, detail |-> "",
                      user |-> Some(user[1] @@ ("id" :> str(user[1]._id)))]

(* A variant that looks the session up by its token alone.                 *)
get_current_user_no_expiry(d, t, authorization) ==
    IF authorization = None \/ authorization[1] = <<>>
    THEN [status |-> 401, detail |-> "Missing authorization header", user |-> None]
    ELSE
      LET token   == replace_bearer(authorization[1])
          session == find_one(SelectSeq(d.session,
                              LAMBDA s : s.token = token))
      IN  IF session = None
          THEN [status |-> 401, detail |-> "Invalid or expired token", user |-> None]
          ELSE
            LET user == find_one(SelectSeq(d.user,
                                 LAMBDA u : u._id = ObjectId(session[1].user_id)))
            IN  IF user = None
                THEN [status |-> 401, detail |-> "User not found", user |-> None]
                ELSE [status |-> 200, detail |-> "",
                      user |-> Some(user[1] @@ ("id" :> str(user[1]._id)))]

get_current_user(d, t, authorization) ==
    IF authorization = None \/ authorization[1] = <<>>
    THEN [status |-> 401, detail |-> "Missing authorization header", user |-> None]
    ELSE
      LET token   == replace_bearer(authorization[1])
          session == find_one(SelectSeq(d.session,
                              LAMBDA s : s.token = token /\ s.expires_at > t))
      IN  IF session = None
          THEN [status |-> 401, detail |-> "Invalid or expired token", user |-> None]
          ELSE
            LET user == find_one(SelectSeq(d.user,
                                 LAMBDA u : u._id = ObjectId(session[1].user_id)))
            IN  IF user = None
                THEN [status |-> 401, detail |-> "User not found", user |-> None]
                ELSE [status |-> 200, detail |-> "",
                      user |-> Some(user[1] @@ ("id" :> str(user[1]._id)))]

root(d) == Return(d, [message |-> "Matrimonial API running"])

----------------------------------------------------------------------------
(* Auth endpoints.                                                         *)

(* The existence check of signup: the user registered under the address.   *)
find_user_by_email(d, email) ==
    find_one(SelectSeq(d.user, LAMBDA u : u.email = email))

new_user_doc(inserted_id, payload, email, t) ==
    [ _id           |-> inserted_id,
      name          |-> payload.name,
      email         |-> email,
      password_hash |-> hash_password(payload.password),
      is_active     |-> TRUE,
      gender        |-> None,
      date_of_birth |-> None,
      location      |-> None,
      bio           |-> None,
      interests     |-> <<>>,
      photos        |-> <<>>,
      created_at    |-> t,
      updated_at    |-> t ]

(* A variant on a store with a unique index on the address: the insert is  *)
(* refused when the address is registered.                                 *)
create_user_unique(d, t, payload) ==
    LET email == lower(payload.email)
        inserted_id == ObjectId(Len(d.user) + 1)
    IN  IF find_user_by_email(d, email) # None
        THEN HTTPException(d, 400, "Email already registered")
        ELSE Return([d EXCEPT !.user =
                        insert_one(@, new_user_doc(inserted_id, payload, email, t))],
                    [id |-> str(inserted_id), email |-> email,
                     name |-> payload.name])

(* The insert of signup and its response: the store hands out the id when  *)
(* it inserts.                                                             *)
create_user(d, t, payload) ==
    LET email == lower(payload.email)
        inserted_id == ObjectId(Len(d.user) + 1)
    IN  Return([d EXCEPT !.user =
                   insert_one(@, new_user_doc(inserted_id, payload, email, t))],
               [id |-> str(inserted_id), email |-> email,
                name |-> payload.name])

(* A variant that looks the address up as it was typed.                    *)
signup_case_sensitive(d, t, payload) ==
    IF find_user_by_email(d, payload.email) # None
    THEN HTTPException(d, 400, "Email already registered")
    ELSE create_user(d, t, payload)

signup(d, t, payload) ==
    LET email == lower(payload.email)
    IN  IF find_user_by_email(d, email) # None
        THEN HTTPException(d, 400, "Email already registered")
        ELSE create_user(d, t, payload)

(* A variant that rotates: a login drops the earlier sessions of the user. *)
login_rotating(d, t, payload) ==
    LET email == lower(payload.email)
        user  == find_one(SelectSeq(d.user, LAMBDA u : u.email = email))
    IN  IF user = None \/ user[1].password_hash # hash_password(payload.password)
        THEN HTTPException(d, 401, "Invalid credentials")
        ELSE
          LET token   == <<token_urlsafe(Len(d.session) + 1)>>
              expires == expiry(t)
          IN  Return([d EXCEPT !.session =
                         insert_one(SelectSeq(@, LAMBDA s :
                                                  s.user_id # str(user[1]._id)),
                                    [user_id    |-> str(user[1]._id),
                                     token      |-> token,
                                     expires_at |-> expires])],
                     [token |-> token,
                      user  |-> [id    |-> str(user[1]._id),
                                 name  |-> user[1].name,
                                 email |-> user[1].email]])

login(d, t, payload) ==
    LET email == lower(payload.email)
        user  == find_one(SelectSeq(d.user, LAMBDA u : u.email = email))
    IN  IF user = None \/ user[1].password_hash # hash_password(payload.password)
        THEN HTTPException(d, 401, "Invalid credentials")
        ELSE
          LET token   == <<token_urlsafe(Len(d.session) + 1)>>
              expires == expiry(t)
          IN  Return([d EXCEPT !.session =
                         insert_one(@, [user_id    |-> str(user[1]._id),
                                        token      |-> token,
                                        expires_at |-> expires])],
                     [token |-> token,
                      user  |-> [id    |-> str(user[1]._id),
                                 name  |-> user[1].name,
                                 email |-> user[1].email]])

----------------------------------------------------------------------------
(* Profile endpoints.                                                      *)

get_me(d, t, authorization) ==
    LET auth == get_current_user(d, t, authorization)
    IN  IF auth.user = None
        THEN HTTPException(d, auth.status, auth.detail)
        ELSE Return(d, without(auth.user[1], {"password_hash", "_id"}))

(* update.model_dump(exclude_none=True): the fields that were given.       *)
model_dump_exclude_none(update) ==
    LET given == {f \in DOMAIN update : update[f] # None}
    IN  [f \in given |-> update[f][1]]

(* update_one({"_id": oid}, {"$set": updates}): the first document with    *)
(* that _id gets the fields of updates, the others are left alone.         *)
update_one_set(coll, oid, updates) ==
    LET hits == {i \in DOMAIN coll : coll[i]._id = oid}
    IN  IF hits = {} THEN coll
        ELSE LET k == CHOOSE i \in hits : \A j \in hits : i <= j
             IN  [coll EXCEPT ![k] =
                     [f \in (DOMAIN coll[k]) \cup (DOMAIN updates) |->
                         IF f \in DOMAIN updates THEN updates[f] ELSE coll[k][f]]]

update_me(d, t, authorization, update) ==
    LET auth == get_current_user(d, t, authorization)
    IN  IF auth.user = None
        THEN HTTPException(d, auth.status, auth.detail)
        ELSE
          LET updates == model_dump_exclude_none(update)
          IN  IF DOMAIN updates = {}
              THEN Return(d, [updated |-> FALSE])
              ELSE Return([d EXCEPT !.user =
                              update_one_set(@, ObjectId(auth.user[1].id),
                                             updates @@ ("updated_at" :> t))],
                          [updated |-> TRUE])

----------------------------------------------------------------------------
(* Discovery and swipes.                                                   *)

(* A variant that excludes only the liked targets.                         *)
swiped_ids_likes_only(d, user_id) ==
    {s.target_id :
        s \in Range(SelectSeq(d.swipe, LAMBDA x : x.user_id = user_id
                                             /\ x.action = "like"))}
    \cup {user_id}

(* The exclusion set of discover: the targets of the user's swipes, with   *)
(* either action, and the user.                                            *)
swiped_ids(d, user_id) ==
    {s.target_id : s \in Range(SelectSeq(d.swipe, LAMBDA x : x.user_id = user_id))}
    \cup {user_id}

(* A variant that filters before it caps.                                  *)
scan_candidates_filter_first(d, excluded) ==
    LET docs == [i \in DOMAIN d.user |-> without(d.user[i], {"password_hash"})]
        kept == limit(SelectSeq(docs, LAMBDA u : str(u._id) \notin excluded),
                      DiscoverLimit)
    IN  [i \in DOMAIN kept |-> kept[i] @@ ("id" :> str(kept[i]._id))]

(* The scan of discover: the first DiscoverLimit user documents, without   *)
(* the password hash, and of these the ones that are not excluded.         *)
scan_candidates(d, excluded) ==
    LET docs == [i \in DOMAIN d.user |-> without(d.user[i], {"password_hash"})]
        kept == SelectSeq(limit(docs, DiscoverLimit),
                          LAMBDA u : str(u._id) \notin excluded)
    IN  [i \in DOMAIN kept |-> kept[i] @@ ("id" :> str(kept[i]._id))]

discover(d, t, authorization) ==
    LET auth == get_current_user(d, t, authorization)
    IN  IF auth.user = None
        THEN HTTPException(d, auth.status, auth.detail)
        ELSE Return(d, [profiles |->
                 scan_candidates(d, swiped_ids(d, auth.user[1].id))])

(* A variant that accepts every action.                                    *)
valid_action_any(action) == TRUE

(* payload.action not in ["like", "pass"] raises.                          *)
valid_action(action) == action \in {"like", "pass"}

swipe_doc(user_id, payload, t) ==
    [user_id |-> user_id, target_id |-> payload.target_id,
     action |-> payload.action, created_at |-> t]

match_doc(user_id, target_id, t) ==
    [user_a |-> user_id, user_b |-> target_id, created_at |-> t]

(* A variant that keeps one record per (user, target): an earlier swipe of *)
(* the pair is replaced.                                                   *)
record_swipe_upsert(d, t, user_id, payload) ==
    [d EXCEPT !.swipe =
        insert_one(SelectSeq(@, LAMBDA s : ~(s.user_id = user_id
                                             /\ s.target_id = payload.target_id)),
                   swipe_doc(user_id, payload, t))]

(* "Record swipe": the insert into db["swipe"].                            *)
record_swipe(d, t, user_id, payload) ==
    [d EXCEPT !.swipe = insert_one(@, swipe_doc(user_id, payload, t))]

(* A variant that takes a swipe of the target on the user with either      *)
(* action for the reciprocal one.                                          *)
find_reciprocal_any_action(d, user_id, target_id) ==
    find_one(SelectSeq(d.swipe, LAMBDA s : /\ s.user_id = target_id
                                           /\ s.target_id = user_id))

(* A variant that looks for the like of another user only.                 *)
find_reciprocal_not_self(d, user_id, target_id) ==
    find_one(SelectSeq(d.swipe, LAMBDA s : /\ s.user_id = target_id
                                           /\ s.target_id = user_id
                                           /\ s.action = "like"
                                           /\ s.user_id # user_id))

(* A variant that looks at the target's latest swipe on the user only.     *)
find_reciprocal_latest(d, user_id, target_id) ==
    LET theirs == SelectSeq(d.swipe, LAMBDA s : s.user_id = target_id
                                           /\ s.target_id = user_id)
    IN  IF theirs # <<>> /\ theirs[Len(theirs)].action = "like"
        THEN Some(theirs[Len(theirs)]) ELSE None

(* The reciprocal query of swipe: a like by target_id on user_id.          *)
find_reciprocal(d, user_id, target_id) ==
    find_one(SelectSeq(d.swipe, LAMBDA s : /\ s.user_id = target_id
                                 /\ s.target_id = user_id
                                 /\ s.action = "like"))

(* A variant that queries the match collection by the swipe's field names, *)
(* which no Match document carries: it finds nothing.                      *)
find_match_wrong_fields(d, user_id, target_id) ==
    find_one(SelectSeq(d.match, LAMBDA m : /\ "user_id" \in DOMAIN m
                                           /\ "target_id" \in DOMAIN m))

(* A variant that checks the pair in the order of the request only.        *)
find_match_one_order(d, user_id, target_id) ==
    find_one(SelectSeq(d.match, LAMBDA m : m.user_a = user_id /\ m.user_b = target_id))

(* The existence query of swipe: a match of the two in either order.       *)
find_match(d, user_id, target_id) ==
    find_one(SelectSeq(d.match, LAMBDA m : \/ (m.user_a = user_id /\ m.user_b = target_id)
                                 \/ (m.user_a = target_id /\ m.user_b = user_id)))

(* "Create match": the insert into db["match"].                            *)
create_match(d, t, user_id, target_id) ==
    [d EXCEPT !.match = insert_one(@, match_doc(user_id, target_id, t))]

(* A variant that looks for the reciprocal like whatever the action.       *)
evaluate_swipe_any_action(d, t, user_id, payload) ==
    LET reciprocal == find_reciprocal(d, user_id, payload.target_id)
    IN  IF reciprocal # None
        THEN LET exists == find_match(d, user_id, payload.target_id)
             IN  [db |-> IF exists = None
                         THEN create_match(d, t, user_id, payload.target_id)
                         ELSE d,
                  is_match |-> TRUE]
        ELSE [db |-> d, is_match |-> FALSE]

(* A variant that inserts the match without the existence check.           *)
evaluate_swipe_no_exists_check(d, t, user_id, payload) ==
    IF payload.action = "like"
    THEN LET reciprocal == find_reciprocal(d, user_id, payload.target_id)
         IN  IF reciprocal # None
             THEN [db |-> create_match(d, t, user_id, payload.target_id),
                   is_match |-> TRUE]
             ELSE [db |-> d, is_match |-> FALSE]
    ELSE [db |-> d, is_match |-> FALSE]

(* "If like, check for mutual": what swipe does once the swipe is recorded,*)
(* the store it leaves and is_match.                                       *)
evaluate_swipe(d, t, user_id, payload) ==
    IF payload.action = "like"
    THEN LET reciprocal == find_reciprocal(d, user_id, payload.target_id)
         IN  IF reciprocal # None
             THEN LET exists == find_match(d, user_id, payload.target_id)
                  IN  [db |-> IF exists = None
                              THEN create_match(d, t, user_id, payload.target_id)
                              ELSE d,
                       is_match |-> TRUE]
             ELSE [db |-> d, is_match |-> FALSE]
    ELSE [db |-> d, is_match |-> FALSE]

swipe(d, t, authorization, payload) ==
    LET auth == get_current_user(d, t, authorization)
    IN  IF auth.user = None
        THEN HTTPException(d, auth.status, auth.detail)
        ELSE IF ~valid_action(payload.action)
        THEN HTTPException(d, 400, "Invalid action")
        ELSE
          LET user == auth.user[1]
              e == evaluate_swipe(record_swipe(d, t, user.id, payload),
                                  t, user.id, payload)
          IN  Return(e.db, [ok |-> TRUE, match |-> e.is_match])

(* A variant that finds the records the user is user_a of only.            *)
matches_as_user_a(d, t, authorization) ==
    LET auth == get_current_user(d, t, authorization)
    IN  IF auth.user = None
        THEN HTTPException(d, auth.status, auth.detail)
        ELSE
          LET user == auth.user[1]
              ms == SelectSeq(d.match,
                         LAMBDA m : m.user_a = user.id)
              partner_ids == [i \in DOMAIN ms |->
                                 IF ms[i].user_a = user.id
                                 THEN ms[i].user_b ELSE ms[i].user_a]
              found == [i \in DOMAIN partner_ids |->
                           find_one(SelectSeq(d.user,
                                    LAMBDA u : u._id = ObjectId(partner_ids[i])))]
              present == SelectSeq(found, LAMBDA u : u # None)
              partners == [i \in DOMAIN present |->
                              without(present[i][1], {"password_hash"})
                              @@ ("id" :> str(present[i][1]._id))]
          IN  Return(d, [matches |-> partners])

matches(d, t, authorization) ==
    LET auth == get_current_user(d, t, authorization)
    IN  IF auth.user = None
        THEN HTTPException(d, auth.status, auth.detail)
        ELSE
          LET user == auth.user[1]
              ms == SelectSeq(d.match,
                         LAMBDA m : m.user_a = user.id \/ m.user_b = user.id)
              partner_ids == [i \in DOMAIN ms |->
                                 IF ms[i].user_a = user.id
                                 THEN ms[i].user_b ELSE ms[i].user_a]
              found == [i \in DOMAIN partner_ids |->
                           find_one(SelectSeq(d.user,
                                    LAMBDA u : u._id = ObjectId(partner_ids[i])))]
              present == SelectSeq(found, LAMBDA u : u # None)
              partners == [i \in DOMAIN present |->
                              without(present[i][1], {"password_hash"})
                              @@ ("id" :> str(present[i][1]._id))]
          IN  Return(d, [matches |-> partners])

(* Public endpoint to fetch a profile.                                     *)
public_profile(d, user_id) ==
    LET u == find_one(SelectSeq(d.user, LAMBDA x : x._id = ObjectId(user_id)))
    IN  IF u = None
        THEN HTTPException(d, 404, "User not found")
        ELSE Return(d, without(u[1], {"password_hash"})
                       @@ ("id" :> str(u[1]._id)))

----------------------------------------------------------------------------
(* The requests of the model.                                              *)

Alice == [name |-> "Alice", email |-> <<"a", "@", "x">>, password |-> "pw-a"]
Bob   == [name |-> "Bob",   email |-> <<"B", "@", "X">>, password |-> "pw-b"]
Carol == [name |-> "Carol", email |-> <<"c", "@", "x">>, password |-> "pw-c"]

credentials(p) == [email |-> p.email, password |-> p.password]

(* The store after Alice, Bob and Carol signed up on day 0, Carol logged   *)
(* in on day 0 and Alice and Bob logged in on day 1: the users 1, 2, 3 and *)
(* the tokens tok1 (Carol), tok2 (Alice), tok3 (Bob).                      *)
SeededDb ==
    LET d1 == signup(EmptyDb, 0, Alice).db
        d2 == signup(d1, 0, Bob).db
        d3 == signup(d2, 0, Carol).db
        d4 == login(d3, 0, credentials(Carol)).db
        d5 == login(d4, 1, credentials(Alice)).db
    IN  login(d5, 1, credentials(Bob)).db

(* The day of the sequential model: Carol's token has just expired.        *)
SeededNow == expiry(0)

Bearer(tok) == Some(<<"Bearer ", tok>>)

Headers ==
    { None,                  \* no Authorization header
      Some(<<>>),            \* an empty one
      Bearer("tok1"),        \* Carol's, expired
      Bearer("tok2"),        \* Alice's
      Some(<<"tok2">>),      \* Alice's, without the scheme
      Bearer("tok3"),        \* Bob's
      Bearer("tok9") }       \* unknown

TargetIds == 1 .. 3
ActionInputs == {"like", "pass", "superlike"}

SwipePayloads == [target_id : TargetIds, action : ActionInputs]

(* The id of the user a header authenticates, or None.                     *)
caller(d, t, authorization) ==
    LET auth == get_current_user(d, t, authorization)
    IN  IF auth.user = None THEN None ELSE Some(auth.user[1].id)

Response(op, user, payload, r) ==
    [op |-> op, user |-> user, payload |-> payload,
     status |-> r.status, body |-> r.body]

NoResponse ==
    [op |-> "none", user |-> None, payload |-> None,
     status |-> 0, body |-> [detail |-> ""]]

Workers == 1 .. 2

Idle == [pc |-> "idle"]

----------------------------------------------------------------------------
(* The sequential service: one request at a time, each handler run to its  *)
(* end before the next request starts.                                     *)

Init ==
    /\ db = SeededDb
    /\ now = SeededNow
    /\ resp = NoResponse
    /\ req = [w \in Workers |-> Idle]

(* A request is answered: the store the handler leaves, the response sent. *)
Answer(op, authorization, payload, r) ==
    /\ db' = r.db
    /\ resp' = Response(op, caller(db, now, authorization), payload, r)

request_swipe(headers, payloads) ==
    \E authorization \in headers, payload \in payloads :
        Answer("swipe", authorization, Some(payload),
               swipe(db, now, authorization, payload))

request_discover(headers) ==
    \E authorization \in headers :
        Answer("discover", authorization, None,
               discover(db, now, authorization))

post_swipe ==
    /\ Len(db.swipe) < MaxSwipes
    /\ request_swipe(Headers, SwipePayloads)
    /\ UNCHANGED <<now, req>>

get_discover ==
    /\ request_discover(Headers)
    /\ UNCHANGED <<now, req>>

Next == post_swipe \/ get_discover

Spec == Init /\ [][Next]_vars

----------------------------------------------------------------------------
(* Concurrent swipes: each worker runs one swipe request at a time, and    *)
(* the requests of different workers interleave between store operations:  *)
(* the two reads of the dependency get_current_user, after which the       *)
(* request is handed over to the handler, and the store operations of the  *)
(* handler.                                                                *)

ConcHeaders == {None, Bearer("tok2"), Bearer("tok3")}
ConcPayloads ==
    [target_id : 1 .. 2, action : {"like", "pass"}]
        \cup {[target_id |-> 1, action |-> "superlike"]}

(* The swipe records written and about to be written by the requests that  *)
(* have not been refused.                                                  *)
ConcLoad ==
    Len(db.swipe)
        + Cardinality({w \in Workers :
                          req[w].pc \in {"session", "user", "validate", "record"}})

(* The slot of a worker whose request is over: free for the next request,  *)
(* or, for a client that sends one request, done with what was returned.   *)
Over(slot, status, is_match) ==
    IF slot.once
    THEN [pc |-> "done", once |-> TRUE, payload |-> slot.payload,
          status |-> status, is_match |-> is_match]
    ELSE Idle

(* Lines 58-60: a request arrives; without an Authorization header it is   *)
(* refused before any store operation, else the token is taken from it.    *)
arrive(w, authorization, payload, once) ==
    IF authorization = None \/ authorization[1] = <<>>
    THEN /\ resp' = Response("swipe", None, Some(payload),
                             HTTPException(db, 401, "Missing authorization header"))
         /\ req' = [req EXCEPT ![w] =
                       Over([once |-> once, payload |-> payload], 401, FALSE)]
         /\ UNCHANGED db
    ELSE /\ req' = [req EXCEPT ![w] =
                       [pc |-> "session", once |-> once,
                        token |-> replace_bearer(authorization[1]),
                        payload |-> payload]]
         /\ UNCHANGED <<db, resp>>

swipe_begin(w) ==
    /\ req[w].pc = "idle"
    /\ ConcLoad < MaxConcSwipes
    /\ \E authorization \in ConcHeaders, payload \in ConcPayloads :
          arrive(w, authorization, payload, FALSE)
    /\ UNCHANGED now

(* Lines 61-63: the session of the token that has not expired is read.     *)
swipe_session(w) ==
    /\ req[w].pc = "session"
    /\ LET session == find_one(SelectSeq(db.session,
                           LAMBDA s : s.token = req[w].token /\ s.expires_at > now))
       IN  IF session = None
           THEN /\ resp' = Response("swipe", None, Some(req[w].payload),
                                    HTTPException(db, 401, "Invalid or expired token"))
                /\ req' = [req EXCEPT ![w] = Over(req[w], 401, FALSE)]
                /\ UNCHANGED db
           ELSE /\ req' = [req EXCEPT ![w] =
                              [pc |-> "user", once |-> req[w].once,
                               user_id |-> session[1].user_id,
                               payload |-> req[w].payload]]
                /\ UNCHANGED <<db, resp>>
    /\ UNCHANGED now

(* Lines 64-68: the user of the session is read; the request goes on to    *)
(* the handler.                                                            *)
swipe_user(w) ==
    /\ req[w].pc = "user"
    /\ LET user == find_one(SelectSeq(db.user,
                        LAMBDA u : u._id = ObjectId(req[w].user_id)))
       IN  IF user = None
           THEN /\ resp' = Response("swipe", None, Some(req[w].payload),
                                    HTTPException(db, 401, "User not found"))
                /\ req' = [req EXCEPT ![w] = Over(req[w], 401, FALSE)]
                /\ UNCHANGED db
           ELSE /\ req' = [req EXCEPT ![w] =
                              [pc |-> "validate", once |-> req[w].once,
                               user_id |-> str(user[1]._id),
                               payload |-> req[w].payload]]
                /\ UNCHANGED <<db, resp>>
    /\ UNCHANGED now

(* Lines 177-179: the handler validates the action.                        *)
swipe_validate(w) ==
    /\ req[w].pc = "validate"
    /\ IF ~valid_action(req[w].payload.action)
       THEN /\ resp' = Response("swipe", Some(req[w].user_id), Some(req[w].payload),
                                HTTPException(db, 400, "Invalid action"))
            /\ req' = [req EXCEPT ![w] = Over(req[w], 400, FALSE)]
            /\ UNCHANGED db
       ELSE /\ req' = [req EXCEPT ![w] =
                          [pc |-> "record", once |-> req[w].once,
                           user_id |-> req[w].user_id,
                           payload |-> req[w].payload, is_match |-> FALSE]]
            /\ UNCHANGED <<db, resp>>
    /\ UNCHANGED now

(* A variant that runs the reciprocal query first and inserts the swipe    *)
(* next, in two steps: the query reads a ledger without the request's own  *)
(* swipe.                                                                  *)
swipe_record_after_query(w) ==
    \/ /\ req[w].pc = "record"
       /\ LET reciprocal == find_reciprocal(db, req[w].user_id,
                                            req[w].payload.target_id)
          IN  req' = [req EXCEPT ![w].pc = "queried",
                                 ![w].is_match = /\ req[w].payload.action = "like"
                                                 /\ reciprocal # None]
       /\ UNCHANGED <<db, now, resp>>
    \/ /\ req[w].pc = "queried"
       /\ db' = record_swipe(db, now, req[w].user_id, req[w].payload)
       /\ req' = [req EXCEPT ![w].pc =
                     IF req[w].is_match THEN "exists" ELSE "return"]
       /\ UNCHANGED <<now, resp>>

(* Lines 181-191: the swipe is inserted; a pass goes on to return.         *)
swipe_record(w) ==
    /\ req[w].pc = "record"
    /\ db' = record_swipe(db, now, req[w].user_id, req[w].payload)
    /\ req' = [req EXCEPT ![w].pc =
                  IF req[w].payload.action = "like" THEN "reciprocal" ELSE "return"]
    /\ UNCHANGED <<now, resp>>

(* Lines 192-197: the query for the reciprocal like.                       *)
swipe_reciprocal(w) ==
    /\ req[w].pc = "reciprocal"
    /\ LET reciprocal == find_reciprocal(db, req[w].user_id,
                                         req[w].payload.target_id)
       IN  req' = [req EXCEPT ![w].pc =
                      IF reciprocal # None THEN "exists" ELSE "return"]
    /\ UNCHANGED <<db, now, resp>>

(* Lines 199-205 and 211: the query for an existing match.                 *)
swipe_exists(w) ==
    /\ req[w].pc = "exists"
    /\ LET exists == find_match(db, req[w].user_id, req[w].payload.target_id)
       IN  req' = [req EXCEPT ![w].pc = IF exists = None THEN "insert" ELSE "return",
                              ![w].is_match = (exists # None)]
    /\ UNCHANGED <<db, now, resp>>

(* Lines 206-211: the match is inserted.                                   *)
swipe_insert(w) ==
    /\ req[w].pc = "insert"
    /\ db' = create_match(db, now, req[w].user_id, req[w].payload.target_id)
    /\ req' = [req EXCEPT ![w].pc = "return", ![w].is_match = TRUE]
    /\ UNCHANGED <<now, resp>>

(* Line 213: the response is sent.                                         *)
swipe_return(w) ==
    /\ req[w].pc = "return"
    /\ resp' = Response("swipe", Some(req[w].user_id), Some(req[w].payload),
                        Return(db, [ok |-> TRUE, match |-> req[w].is_match]))
    /\ req' = [req EXCEPT ![w] = Over(req[w], 200, req[w].is_match)]
    /\ UNCHANGED <<db, now>>

NextConc ==
    \E w \in Workers :
        \/ swipe_begin(w)
        \/ swipe_session(w)
        \/ swipe_user(w)
        \/ swipe_validate(w)
        \/ swipe_record(w)
        \/ swipe_reciprocal(w)
        \/ swipe_exists(w)
        \/ swipe_insert(w)
        \/ swipe_return(w)

SpecConc == Init /\ [][NextConc]_vars

----------------------------------------------------------------------------
(* Discovery over a store larger than the scan cap.  The store starts with *)
(* DiscoverLimit or DiscoverLimit + 2 users, signed up on day 0; user 1    *)
(* (inside the first DiscoverLimit records) and user DiscoverLimit + 1     *)
(* (beyond them) logged in on day 1; in one of the initial stores user 1   *)
(* passed on every user from 2 to DiscoverLimit on day 2.                  *)

Member(k) ==
    [name |-> "member", email |-> <<"u", ToString(k), "@", "x">>,
     password |-> "pw"]

(* The store d after the members Len(d.user) + 1 .. n signed up on day 0.  *)
RECURSIVE Populated(_, _)
Populated(d, n) ==
    IF Len(d.user) >= n THEN d
    ELSE Populated(signup(d, 0, Member(Len(d.user) + 1)).db, n)

LoggedIn(n) ==
    LET d1 == login(Populated(EmptyDb, n), 1, credentials(Member(1))).db
    IN  login(d1, 1, credentials(Member(DiscoverLimit + 1))).db

(* The store d after user 1 passed, on day 2, on the users that follow the *)
(* ones passed on already, up to user k.                                   *)
RECURSIVE PassedUpTo(_, _)
PassedUpTo(d, k) ==
    IF Len(d.swipe) + 1 >= k THEN d
    ELSE PassedUpTo(swipe(d, 2, Bearer("tok1"),
                          [target_id |-> Len(d.swipe) + 2, action |-> "pass"]).db,
                    k)

LargeStores ==
    {LoggedIn(DiscoverLimit), LoggedIn(DiscoverLimit + 2),
     PassedUpTo(LoggedIn(DiscoverLimit + 2), DiscoverLimit)}

LargeHeaders == {Bearer("tok1"), Bearer("tok2")}
LargePayloads ==
    [target_id : {2, DiscoverLimit, DiscoverLimit + 1}, action : {"like", "pass"}]

(* The swipes recorded on the day of the model.                            *)
SwipesToday == {i \in DOMAIN db.swipe : db.swipe[i].created_at = now}

InitLarge ==
    /\ db \in LargeStores
    /\ now = 3
    /\ resp = NoResponse
    /\ req = [w \in Workers |-> Idle]

post_swipe_large ==
    /\ Cardinality(SwipesToday) < MaxDiscoverSwipes
    /\ request_swipe(LargeHeaders, LargePayloads)
    /\ UNCHANGED <<now, req>>

get_discover_large ==
    /\ request_discover(LargeHeaders)
    /\ UNCHANGED <<now, req>>

NextLarge == post_swipe_large \/ get_discover_large

SpecDiscover == InitLarge /\ [][NextLarge]_vars

----------------------------------------------------------------------------
(* The whole service, one request at a time: every handler, on the seeded  *)
(* store or on the seeded store after Alice and Bob liked each other on    *)
(* day 6.                                                                  *)

MatchedDb ==
    LET d1 == swipe(SeededDb, 6, Bearer("tok2"),
                    [target_id |-> 2, action |-> "like"]).db
    IN  swipe(d1, 6, Bearer("tok3"), [target_id |-> 1, action |-> "like"]).db

(* The same with the likes in the other order: Alice's like made the Match.*)
MatchedDbReverse ==
    LET d1 == swipe(SeededDb, 6, Bearer("tok3"),
                    [target_id |-> 1, action |-> "like"]).db
    IN  swipe(d1, 6, Bearer("tok2"), [target_id |-> 2, action |-> "like"]).db

InitService ==
    /\ db \in {SeededDb, MatchedDb, MatchedDbReverse}
    /\ now = SeededNow
    /\ resp = NoResponse
    /\ req = [w \in Workers |-> Idle]

Dave == [name |-> "Dave", email |-> <<"d", "@", "x">>, password |-> "pw-d"]

(* Alice's address again, in upper case.                                   *)
AliceUpper == [name |-> "Alice2", email |-> <<"A", "@", "X">>, password |-> "pw-z"]

SignupPayloads == {Dave, AliceUpper}

LoginPayloads ==
    { credentials(Alice),
      [email |-> Alice.email, password |-> "wrong"],
      [email |-> <<"z", "@", "x">>, password |-> "pw-z"] }

NoUpdate ==
    [name |-> None, gender |-> None, date_of_birth |-> None, location |-> None,
     bio |-> None, interests |-> None, photos |-> None]

ProfileUpdates == {NoUpdate, [NoUpdate EXCEPT !.bio = Some("hello")]}

ServiceHeaders ==
    {None, Bearer("tok1"), Bearer("tok2"), Bearer("tok3"), Bearer("tok4")}

ServicePayloads == [target_id : 1 .. 2, action : ActionInputs]

ProfileIds == {1, 5}

get_root ==
    /\ Answer("root", None, None, root(db))
    /\ UNCHANGED <<now, req>>

post_auth_signup ==
    /\ \E payload \in SignupPayloads :
          Answer("signup", None, Some(payload), signup(db, now, payload))
    /\ UNCHANGED <<now, req>>

post_auth_login ==
    /\ Len(db.session) < MaxSessions
    /\ \E payload \in LoginPayloads :
          Answer("login", None, Some(payload), login(db, now, payload))
    /\ UNCHANGED <<now, req>>

get_me_service ==
    /\ \E authorization \in ServiceHeaders :
          Answer("get_me", authorization, None, get_me(db, now, authorization))
    /\ UNCHANGED <<now, req>>

put_me ==
    /\ \E authorization \in ServiceHeaders, update \in ProfileUpdates :
          Answer("update_me", authorization, Some(update),
                 update_me(db, now, authorization, update))
    /\ UNCHANGED <<now, req>>

get_discover_service ==
    /\ request_discover(ServiceHeaders)
    /\ UNCHANGED <<now, req>>

post_swipe_service ==
    /\ Cardinality(SwipesToday) < MaxServiceSwipes
    /\ request_swipe(ServiceHeaders, ServicePayloads)
    /\ UNCHANGED <<now, req>>

get_matches ==
    /\ \E authorization \in ServiceHeaders :
          Answer("matches", authorization, None, matches(db, now, authorization))
    /\ UNCHANGED <<now, req>>

get_profile ==
    /\ \E user_id \in ProfileIds :
          Answer("public_profile", None, Some([user_id |-> user_id]),
                 public_profile(db, user_id))
    /\ UNCHANGED <<now, req>>

NextService ==
    \/ get_root
    \/ post_auth_signup
    \/ post_auth_login
    \/ get_me_service
    \/ put_me
    \/ get_discover_service
    \/ post_swipe_service
    \/ get_matches
    \/ get_profile

SpecService == InitService /\ [][NextService]_vars

----------------------------------------------------------------------------
(* Store failures: one swipe request at a time, run store operation by     *)
(* store operation; a store operation may raise instead of completing.     *)
(* swipe catches nothing, so the request ends there with a server error    *)
(* and what it wrote so far stays written.                                 *)

FailWorkers == {1}

(* The user a request in flight is authenticated as, once both reads of    *)
(* the dependency are done.                                                *)
authenticated(slot) ==
    IF slot.pc \in {"session", "user"} THEN None ELSE Some(slot.user_id)

(* A variant that compensates: the swipe the request inserted is removed.  *)
swipe_fail_rollback(w) ==
    /\ req[w].pc \in {"session", "user", "record", "reciprocal", "exists", "insert"}
    /\ db' = IF req[w].pc \in {"session", "user", "record"} THEN db
             ELSE [db EXCEPT !.swipe = SubSeq(@, 1, Len(@) - 1)]
    /\ resp' = Response("swipe", authenticated(req[w]), Some(req[w].payload),
                        HTTPException(db', 500, "Internal Server Error"))
    /\ req' = [req EXCEPT ![w] = Over(req[w], 500, FALSE)]
    /\ UNCHANGED now

(* The store operation the request is at (one of the two reads of the      *)
(* dependency, the insert of the swipe, one of the two queries, the insert *)
(* of the match) raises.                                                   *)
swipe_fail(w) ==
    /\ req[w].pc \in {"session", "user", "record", "reciprocal", "exists", "insert"}
    /\ resp' = Response("swipe", authenticated(req[w]), Some(req[w].payload),
                        HTTPException(db, 500, "Internal Server Error"))
    /\ req' = [req EXCEPT ![w] = Over(req[w], 500, FALSE)]
    /\ UNCHANGED <<db, now>>

NextFail ==
    \E w \in FailWorkers :
        \/ swipe_begin(w)
        \/ swipe_session(w)
        \/ swipe_user(w)
        \/ swipe_validate(w)
        \/ swipe_record(w)
        \/ swipe_reciprocal(w)
        \/ swipe_exists(w)
        \/ swipe_insert(w)
        \/ swipe_return(w)
        \/ swipe_fail(w)

SpecFail == Init /\ [][NextFail]_vars

----------------------------------------------------------------------------
(* A race of two swipes: Alice's request runs on worker 1 and Bob's on     *)
(* worker 2, each once, interleaved between store operations; a finished   *)
(* request keeps what it returned.                                         *)

RaceHeader(w) == IF w = 1 THEN Bearer("tok2") ELSE Bearer("tok3")

(* The stores a race starts from: the seeded one, and the seeded one after *)
(* Bob passed on Alice on day 6.                                           *)
RaceStores ==
    {SeededDb,
     swipe(SeededDb, 6, Bearer("tok3"), [target_id |-> 1, action |-> "pass"]).db}

InitRace ==
    /\ db \in RaceStores
    /\ now = SeededNow
    /\ resp = NoResponse
    /\ req = [w \in Workers |-> Idle]

(* Lines 58-60: the one request of the client of worker w arrives.         *)
race_begin(w) ==
    /\ req[w].pc = "idle"
    /\ \E payload \in ConcPayloads : arrive(w, RaceHeader(w), payload, TRUE)
    /\ UNCHANGED now

NextRace ==
    \E w \in Workers :
        \/ race_begin(w)
        \/ swipe_session(w)
        \/ swipe_user(w)
        \/ swipe_validate(w)
        \/ swipe_record(w)
        \/ swipe_reciprocal(w)
        \/ swipe_exists(w)
        \/ swipe_insert(w)
        \/ swipe_return(w)

SpecRace == InitRace /\ [][NextRace]_vars

----------------------------------------------------------------------------
(* Concurrent signups: each worker runs one signup request at a time, and  *)
(* the requests of different workers interleave between the existence      *)
(* check and the insert, the two store operations of signup.               *)

DaveUpper == [name |-> "Dave2", email |-> <<"D", "@", "X">>, password |-> "pw-y"]
Erin == [name |-> "Erin", email |-> <<"e", "@", "x">>, password |-> "pw-e"]

ConcSignupPayloads == {Dave, DaveUpper, Erin, AliceUpper}

(* The user records written since the start and about to be written.       *)
SignupLoad ==
    Len(db.user) - Len(SeededDb.user)
        + Cardinality({w \in Workers : req[w].pc = "create"})

(* Lines 101-103: the existence check; a registered address is refused.    *)
signup_check(w) ==
    /\ req[w].pc = "idle"
    /\ SignupLoad < MaxSignups
    /\ \E payload \in ConcSignupPayloads :
          IF find_user_by_email(db, lower(payload.email)) # None
          THEN /\ Answer("signup", None, Some(payload),
                         HTTPException(db, 400, "Email already registered"))
               /\ UNCHANGED req
          ELSE /\ req' = [req EXCEPT ![w] = [pc |-> "create", payload |-> payload]]
               /\ UNCHANGED <<db, resp>>
    /\ UNCHANGED now

(* Lines 104-119: the insert and the response.                             *)
signup_create(w) ==
    /\ req[w].pc = "create"
    /\ Answer("signup", None, Some(req[w].payload),
              create_user(db, now, req[w].payload))
    /\ req' = [req EXCEPT ![w] = Idle]
    /\ UNCHANGED now

NextSignup == \E w \in Workers : signup_check(w) \/ signup_create(w)

SpecSignup == Init /\ [][NextSignup]_vars

----------------------------------------------------------------------------
(* Sessions over time: logins and authenticated requests, one at a time,   *)
(* while the clock advances from day 1, the day of the last login of the   *)
(* seeded store, to day MaxDay.                                            *)

InitClock ==
    /\ db = SeededDb
    /\ now = 1
    /\ resp = NoResponse
    /\ req = [w \in Workers |-> Idle]

ClockHeaders ==
    {None} \cup {Bearer(token_urlsafe(n)) : n \in 1 .. MaxClockSessions + 1}

(* The clock read by now_utc() advances.                                   *)
tick ==
    /\ now < MaxDay
    /\ now' = now + 1
    /\ UNCHANGED <<db, resp, req>>

login_clock ==
    /\ Len(db.session) < MaxClockSessions
    /\ \E payload \in LoginPayloads :
          Answer("login", None, Some(payload), login(db, now, payload))
    /\ UNCHANGED <<now, req>>

(* GET /me; the response is kept with the header of its request.           *)
get_me_clock ==
    /\ \E authorization \in ClockHeaders :
          Answer("get_me", authorization,
                 Some([authorization |-> authorization]),
                 get_me(db, now, authorization))
    /\ UNCHANGED <<now, req>>

NextClock == tick \/ login_clock \/ get_me_clock

SpecClock == InitClock /\ [][NextClock]_vars

----------------------------------------------------------------------------
(* Vocabulary of the properties.                                           *)

(* The ledger holds a like by a on b.                                      *)
HasLike(ledger, a, b) ==
    \E i \in DOMAIN ledger : /\ ledger[i].user_id = a
                             /\ ledger[i].target_id = b
                             /\ ledger[i].action = "like"

(* The ledger holds a swipe by a on b, with either action.                 *)
HasSwiped(ledger, a, b) ==
    \E i \in DOMAIN ledger : ledger[i].user_id = a /\ ledger[i].target_id = b

(* The Match records of the unordered pair {a, b}.                         *)
MatchesFor(ms, a, b) ==
    {i \in DOMAIN ms : {ms[i].user_a, ms[i].user_b} = {a, b}}

IsPrefix(s, t) == Len(s) <= Len(t) /\ SubSeq(t, 1, Len(s)) = s

UserIds == {str(db.user[i]._id) : i \in DOMAIN db.user}

(* The response r answers an accepted swipe by actor on target.            *)
IsSwipe(r, actor, target, action) ==
    /\ r.op = "swipe"
    /\ r.status = 200
    /\ r.user = Some(actor)
    /\ r.payload = Some([target_id |-> target, action |-> action])

(* The ledger as (user, target, action) triples.                           *)
Triples(ledger) ==
    [i \in DOMAIN ledger |->
        <<ledger[i].user_id, ledger[i].target_id, ledger[i].action>>]

(* No unordered pair has two Match records.                                *)
AtMostOneMatchPerPair ==
    \A a \in TargetIds, b \in TargetIds :
        Cardinality(MatchesFor(db.match, a, b)) <= 1

(* The workers about to insert a Match of {a, b}.                          *)
PendingInserts(a, b) ==
    {w \in Workers : /\ req[w].pc = "insert"
                     /\ {req[w].user_id, req[w].payload.target_id} = {a, b}}

Min(x, y) == IF x <= y THEN x ELSE y

(* User id is one discover may return to r: not r, not swiped by r.        *)
Eligible(r, id) == id # r /\ ~HasSwiped(db.swipe, r, id)

----------------------------------------------------------------------------
(* The properties.                                                         *)

(* C1.  If A likes B while the ledger holds no like by B on A, the swipe   *)
(* returns match = false and no Match of {A, B} exists afterwards, for all *)
(* A and B, A = B included.                                                *)
C1_LikeWithoutReciprocal ==
    [][\A a \in UserIds, b \in TargetIds :
          (IsSwipe(resp', a, b, "like") /\ ~HasLike(db.swipe, b, a))
          => (resp'.body.match = FALSE /\ MatchesFor(db'.match, a, b) = {})]_vars

(* The same for A # B only, which the code satisfies: the one failing case *)
(* of C1 is the self-like, which finds the record just written.            *)
C1_DistinctUsers ==
    [][\A a \in UserIds, b \in TargetIds :
          (a # b /\ IsSwipe(resp', a, b, "like") /\ ~HasLike(db.swipe, b, a))
          => (resp'.body.match = FALSE /\ MatchesFor(db'.match, a, b) = {})]_vars

(* C2.  If the ledger holds a like by A on B and B likes A, the swipe      *)
(* returns match = true and exactly one Match of {A, B} exists afterwards, *)
(* whichever way round it is stored.                                       *)
C2_ReciprocalLikeMatchesOnce ==
    [][\A a \in UserIds, b \in UserIds :
          (IsSwipe(resp', b, a, "like") /\ HasLike(db.swipe, a, b))
          => (/\ resp'.body.match = TRUE
              /\ Cardinality(MatchesFor(db'.match, a, b)) = 1)]_vars

(* A like by 2 on 1 has matched on a Match stored as (1, 2).               *)
C2_Witness ==
    /\ IsSwipe(resp, 2, 1, "like")
    /\ resp.body.match = TRUE
    /\ Len(db.match) = 1
    /\ db.match[1].user_a = 1 /\ db.match[1].user_b = 2

(* C3.  No unordered pair ever has two Match records, and a like by A on B *)
(* repeated after B liked A appends one Swipe record, returns match = true *)
(* and adds no Match record.                                               *)
C3_NoDuplicateMatch ==
    /\ []AtMostOneMatchPerPair
    /\ [][\A a \in UserIds, b \in UserIds :
             (/\ IsSwipe(resp', a, b, "like")
              /\ HasLike(db.swipe, a, b)
              /\ HasLike(db.swipe, b, a))
             => (/\ db'.swipe = Append(db.swipe, swipe_doc(a, resp'.payload[1], now))
                 /\ resp'.body.match = TRUE
                 /\ db'.match = db.match
                 /\ Cardinality(MatchesFor(db'.match, a, b)) = 1)]_vars

(* The like by 1 on 2 was repeated after 2 liked 1.                        *)
C3_Witness ==
    /\ IsSwipe(resp, 1, 2, "like")
    /\ Triples(db.swipe) = << <<2, 1, "like">>, <<1, 2, "like">>, <<1, 2, "like">> >>
    /\ resp.body.match = TRUE
    /\ Len(db.match) = 1

(* C4.  With concurrent requests a pair can get two Match records, because *)
(* the existence check and the insert are separate steps; a record beyond  *)
(* the first comes only from a request that ran its check before the first *)
(* insert, so the records and the pending inserts of a pair never exceed   *)
(* the number of requests in flight.                                       *)
C4_DuplicatesOnlyFromRace ==
    \A a \in TargetIds, b \in TargetIds :
        Cardinality(MatchesFor(db.match, a, b)) + Cardinality(PendingInserts(a, b))
            <= Cardinality(Workers)

(* After 2 liked 1, two identical likes by 1 on 2 both inserted a Match.   *)
C4_Witness ==
    /\ Triples(db.swipe) = << <<2, 1, "like">>, <<1, 2, "like">>, <<1, 2, "like">> >>
    /\ Cardinality(MatchesFor(db.match, 1, 2)) = 2
    /\ \A w \in Workers : req[w].pc = "idle"

(* A like by 1 on 2 and a like by 2 on 1, run together, both inserted.     *)
C4_WitnessCrossed ==
    /\ Triples(db.swipe) = << <<1, 2, "like">>, <<2, 1, "like">> >>
    /\ Len(db.match) = 2
    /\ {<<db.match[i].user_a, db.match[i].user_b>> : i \in 1 .. 2}
          = {<<1, 2>>, <<2, 1>>}
    /\ \A w \in Workers : req[w].pc = "idle"

(* C5.  A pass returns match = false, appends exactly one Swipe record and *)
(* changes nothing else in the store.                                      *)
C5_PassOnlyAppends ==
    [][\A a \in UserIds, b \in TargetIds :
          IsSwipe(resp', a, b, "pass")
          => (/\ resp'.body = [ok |-> TRUE, match |-> FALSE]
              /\ db' = [db EXCEPT !.swipe =
                           Append(@, [user_id |-> a, target_id |-> b,
                                      action |-> "pass", created_at |-> now])])]_vars

(* 1 passed on 2 although 2 had liked 1 and the two were matched.          *)
C5_Witness ==
    /\ IsSwipe(resp, 1, 2, "pass")
    /\ HasLike(db.swipe, 2, 1)
    /\ MatchesFor(db.match, 1, 2) # {}
    /\ resp.body.match = FALSE

(* C6.  A like by A on B matches exactly when the ledger holds a like by B *)
(* on A, whatever passes it holds, and then a Match of {A, B} exists.      *)
C6_PassNeitherBlocksNorRevokes ==
    [][\A a \in UserIds, b \in TargetIds :
          IsSwipe(resp', a, b, "like")
          => (/\ resp'.body.match = HasLike(db'.swipe, b, a)
              /\ resp'.body.match => MatchesFor(db'.match, a, b) # {})]_vars

(* 1 liked 2 and then passed on 2; the later like by 2 on 1 matched.       *)
C6_Witness ==
    /\ IsSwipe(resp, 2, 1, "like")
    /\ Triples(db.swipe) = << <<1, 2, "like">>, <<1, 2, "pass">>, <<2, 1, "like">> >>
    /\ resp.body.match = TRUE
    /\ MatchesFor(db.match, 1, 2) # {}

(* 1 passed on 2 and liked 2 later, after 2 had liked 1: the like matched. *)
C6_WitnessLikeAfterPass ==
    /\ IsSwipe(resp, 1, 2, "like")
    /\ Triples(db.swipe) = << <<2, 1, "like">>, <<1, 2, "pass">>, <<1, 2, "like">> >>
    /\ resp.body.match = TRUE

(* C7.  The swipe ledger and the Match collection only grow: every step of *)
(* every handler keeps the records there are, in place and unchanged, so   *)
(* the Match records of a pair stay.                                       *)
C7_LedgerAndMatchesOnlyGrow ==
    [][/\ IsPrefix(db.swipe, db'.swipe)
       /\ IsPrefix(db.match, db'.match)
       /\ \A a \in TargetIds, b \in TargetIds :
             MatchesFor(db.match, a, b) \subseteq MatchesFor(db'.match, a, b)]_vars

(* 1 and 2 were matched; 1 passed on 2 and updated the profile later; the  *)
(* Match and the three swipes are there.                                   *)
C7_Witness ==
    /\ resp.op = "update_me" /\ resp.status = 200
    /\ resp.body = [updated |-> TRUE]
    /\ Triples(db.swipe) = << <<1, 2, "like">>, <<2, 1, "like">>, <<1, 2, "pass">> >>
    /\ MatchesFor(db.match, 1, 2) # {}

(* C8.  A swipe by an authenticated user with an action other than like    *)
(* and pass is answered 400 and leaves the store as it was.                *)
C8_InvalidActionWritesNothing ==
    [][(/\ resp'.op = "swipe"
        /\ resp'.user # None
        /\ resp'.payload[1].action \notin {"like", "pass"})
       => (resp'.status = 400 /\ db' = db)]_vars

(* A swipe with another action was refused after a swipe was recorded.     *)
C8_Witness ==
    /\ resp.op = "swipe"
    /\ resp.status = 400
    /\ resp.payload[1].action = "superlike"
    /\ Len(db.swipe) > 0

(* C9.  A discover result of R holds neither R nor a user R has swiped on, *)
(* with either action.                                                     *)
C9_DiscoverExcludesSelfAndSwiped ==
    (resp.op = "discover" /\ resp.status = 200)
    => \A i \in DOMAIN resp.body.profiles :
          /\ resp.body.profiles[i].id # resp.user[1]
          /\ ~HasSwiped(db.swipe, resp.user[1], resp.body.profiles[i].id)

(* 1 passed on 2 and liked nobody; discover then returned user 3 alone.    *)
C9_Witness ==
    /\ resp.op = "discover" /\ resp.status = 200 /\ resp.user = Some(1)
    /\ Triples(db.swipe) = << <<1, 2, "pass">> >>
    /\ Len(resp.body.profiles) = 1
    /\ resp.body.profiles[1].id = 3

(* C10.  The cap comes before the filter: a discover result of R is, in    *)
(* store order, the users among the first DiscoverLimit records that are   *)
(* not R and not swiped by R, each without its password hash; a user       *)
(* stored beyond the cap is never returned.                                *)
C10_CapBeforeFilter ==
    (resp.op = "discover" /\ resp.status = 200)
    => LET r == resp.user[1]
           head == [i \in 1 .. Min(Len(db.user), DiscoverLimit) |-> i]
           expected == SelectSeq(head, LAMBDA i : Eligible(r, str(db.user[i]._id)))
           profiles == resp.body.profiles
       IN  /\ Len(profiles) = Len(expected)
           /\ \A k \in DOMAIN profiles :
                 /\ profiles[k].id = str(db.user[expected[k]]._id)
                 /\ profiles[k]._id = db.user[expected[k]]._id
                 /\ profiles[k].email = db.user[expected[k]].email
                 /\ "password_hash" \notin DOMAIN profiles[k]
           /\ \A k \in DOMAIN profiles, i \in DOMAIN db.user :
                 i > DiscoverLimit => profiles[k].id # str(db.user[i]._id)

(* User 1 got no candidate although user DiscoverLimit + 1 is eligible.    *)
C10_Witness ==
    /\ resp.op = "discover" /\ resp.status = 200 /\ resp.user = Some(1)
    /\ Len(db.user) > DiscoverLimit
    /\ Eligible(1, str(db.user[DiscoverLimit + 1]._id))
    /\ resp.body.profiles = <<>>

(* User 1 got fewer than DiscoverLimit candidates, the eligible user       *)
(* DiscoverLimit + 1 not among them.                                       *)
C10_WitnessFewer ==
    /\ resp.op = "discover" /\ resp.status = 200 /\ resp.user = Some(1)
    /\ Len(db.user) > DiscoverLimit
    /\ Eligible(1, str(db.user[DiscoverLimit + 1]._id))
    /\ Len(resp.body.profiles) = DiscoverLimit - 1

(* The user records registered under the address, letter case apart.       *)
RegisteredAs(users, email) ==
    {i \in DOMAIN users : lower(users[i].email) = lower(email)}

(* C11.  With one request at a time, a signup under an address that is     *)
(* registered already, letter case apart, is answered 400 and leaves the   *)
(* store as it was, every other signup adds one user; so no two user       *)
(* records ever share a lower-cased address.                               *)
C11_DuplicateEmailRefused ==
    /\ [](\A i \in DOMAIN db.user :
             RegisteredAs(db.user, db.user[i].email) = {i})
    /\ [][resp'.op = "signup"
          => IF RegisteredAs(db.user, resp'.payload[1].email) # {}
             THEN /\ resp'.status = 400
                  /\ resp'.body = [detail |-> "Email already registered"]
                  /\ db' = db
             ELSE /\ resp'.status = 200
                  /\ Len(db'.user) = Len(db.user) + 1]_vars

(* After Dave signed up, a signup under Alice's address in upper case was  *)
(* refused.                                                                *)
C11_Witness ==
    /\ resp.op = "signup"
    /\ resp.status = 400
    /\ resp.payload = Some(AliceUpper)
    /\ Len(db.user) = 4
    /\ db.user[1].email = lower(AliceUpper.email)
    /\ AliceUpper.email # db.user[1].email

(* The signups that passed the existence check for the address and have   *)
(* not inserted yet.                                                       *)
PendingCreates(email) ==
    {w \in Workers : /\ req[w].pc = "create"
                     /\ lower(req[w].payload.email) = lower(email)}

(* C12.  With concurrent signups the existence check and the insert are    *)
(* separate steps: a signup that passed the check inserts its user and is  *)
(* answered 200 whatever was inserted in between, so two signups under one *)
(* address that both checked before either inserted both succeed and leave *)
(* two user records with the same address; the records and the pending     *)
(* inserts of an address never exceed the number of requests in flight.    *)
C12_ConcurrentSignupsDuplicate ==
    /\ [](\A payload \in ConcSignupPayloads :
             Cardinality(RegisteredAs(db.user, payload.email))
                 + Cardinality(PendingCreates(payload.email))
                 <= Cardinality(Workers))
    /\ [][\A w \in Workers :
             (req[w].pc = "create" /\ req'[w].pc = "idle")
             => (/\ resp'.op = "signup"
                 /\ resp'.status = 200
                 /\ resp'.payload = Some(req[w].payload)
                 /\ Len(db'.user) = Len(db.user) + 1
                 /\ db'.user[Len(db'.user)].email = lower(req[w].payload.email)
                 /\ SubSeq(db'.user, 1, Len(db.user)) = db.user)]_vars

(* Two signups under d@x were both answered 200: the users 4 and 5 carry   *)
(* the same address.                                                       *)
C12_Witness ==
    /\ Len(db.user) = 5
    /\ db.user[4].email = db.user[5].email
    /\ db.user[4].email = lower(Dave.email)
    /\ db.user[4]._id # db.user[5]._id
    /\ resp.op = "signup" /\ resp.status = 200
    /\ \A w \in Workers : req[w].pc = "idle"

(* The users a login request names: registered under the address, letter  *)
(* case apart, with the hash of the password.                              *)
Authenticates(users, payload) ==
    {i \in DOMAIN users : /\ users[i].email = lower(payload.email)
                          /\ users[i].password_hash = hash_password(payload.password)}

(* The Authorization header that carries the token of a session.           *)
HeaderOf(session) == Some(<<"Bearer ">> \o session.token)

(* C13.  A login with an unknown address or a wrong password is answered   *)
(* 401 and creates no session; a login with the right password appends one *)
(* session that expires 7 days after the login, with a token no session    *)
(* had; a request with the token of a session is authenticated as the      *)
(* user of the session at every time before the expiry and is answered 401 *)
(* at the expiry and at every later time.                                  *)
C13_LoginAndSevenDayExpiry ==
    /\ [][(now' = now /\ resp'.op = "login")
          => LET known == Authenticates(db.user, resp'.payload[1])
             IN  IF known = {}
                 THEN /\ resp'.status = 401
                      /\ db' = db
                 ELSE /\ resp'.status = 200
                      /\ \A i \in DOMAIN db.session :
                            db.session[i].token # resp'.body.token
                      /\ \E i \in known :
                            db' = [db EXCEPT !.session =
                                     Append(@, [user_id    |-> str(db.user[i]._id),
                                                token      |-> resp'.body.token,
                                                expires_at |-> now + 7])]]_vars
    /\ [][(now' = now /\ resp'.op = "get_me")
          => \A i \in DOMAIN db.session :
                resp'.payload[1].authorization = HeaderOf(db.session[i])
                => IF now < db.session[i].expires_at
                   THEN /\ resp'.status = 200
                        /\ resp'.body.id = db.session[i].user_id
                   ELSE resp'.status = 401]_vars

(* The token of a login of the model was refused on the day 7 days after   *)
(* the login.                                                              *)
C13_Witness ==
    /\ Len(db.session) >= 4
    /\ resp.op = "get_me"
    /\ resp.payload[1].authorization = HeaderOf(db.session[4])
    /\ resp.status = 401
    /\ now = db.session[4].expires_at

(* The same token was accepted on the day before.                          *)
C13_WitnessLastDay ==
    /\ Len(db.session) >= 4
    /\ resp.op = "get_me"
    /\ resp.payload[1].authorization = HeaderOf(db.session[4])
    /\ resp.status = 200
    /\ now = db.session[4].expires_at - 1

(* A login with a wrong password was refused after a login succeeded.      *)
C13_WitnessWrongPassword ==
    /\ Len(db.session) >= 4
    /\ resp.op = "login"
    /\ resp.payload[1].password = "wrong"
    /\ resp.status = 401

(* C14.  In every reachable state, with requests one at a time or          *)
(* interleaved, every Match record (a, b) is backed by mutual likes: the   *)
(* ledger holds a like by a on b and a like by b on a.                     *)
C14_MatchBackedByMutualLikes ==
    \A i \in DOMAIN db.match :
        /\ HasLike(db.swipe, db.match[i].user_a, db.match[i].user_b)
        /\ HasLike(db.swipe, db.match[i].user_b, db.match[i].user_a)

(* 2 passed on 1 and liked 1 later; the like by 1 on 2 that ran meanwhile  *)
(* made the Match of the two.                                              *)
C14_Witness ==
    /\ Triples(db.swipe) = << <<2, 1, "pass">>, <<1, 2, "like">>, <<2, 1, "like">> >>
    /\ Len(db.match) = 1
    /\ db.match[1].user_a = 1 /\ db.match[1].user_b = 2
    /\ \A w \in Workers : req[w].pc = "idle"

(* Worker w has finished an accepted like on target.                       *)
RaceLiked(w, target) ==
    /\ req[w].pc = "done"
    /\ req[w].status = 200
    /\ req[w].payload = [target_id |-> target, action |-> "like"]

(* C15.  No mutual like is lost to a race: when a like by 1 on 2 and a     *)
(* like by 2 on 1 run together, under every interleaving of their store    *)
(* operations, once both have finished one of them at least returned       *)
(* match = true and a Match of {1, 2} exists; each request inserts its     *)
(* swipe before it queries for the reciprocal one.                         *)
C15_NoMutualLikeLost ==
    (RaceLiked(1, 2) /\ RaceLiked(2, 1))
    => /\ req[1].is_match \/ req[2].is_match
       /\ MatchesFor(db.match, 1, 2) # {}
       /\ HasLike(db.swipe, 1, 2) /\ HasLike(db.swipe, 2, 1)

(* The two likes crossed and only the like by 2 on 1 returned match = true:*)
(* it made the one Match.                                                  *)
C15_Witness ==
    /\ RaceLiked(1, 2) /\ RaceLiked(2, 1)
    /\ Triples(db.swipe) = << <<1, 2, "like">>, <<2, 1, "like">> >>
    /\ ~req[1].is_match /\ req[2].is_match
    /\ Len(db.match) = 1
    /\ db.match[1].user_a = 2

(* The two likes crossed and both returned match = true.                   *)
C15_WitnessBoth ==
    /\ RaceLiked(1, 2) /\ RaceLiked(2, 1)
    /\ req[1].is_match /\ req[2].is_match
    /\ Len(db.match) = 2

(* C16.  A self-swipe is accepted and a self-like matches at once: a like  *)
(* by A on A appends the swipe and returns match = true, the swipe just    *)
(* appended being its own reciprocal, and a Match of A with A exists       *)
(* afterwards; the like inserts that Match, with user_a = user_b = A, when *)
(* there was none, as with no earlier swipes.                              *)
C16_SelfLikeMatchesAtOnce ==
    [][\A a \in UserIds :
          IsSwipe(resp', a, a, "like")
          => (/\ db'.swipe = Append(db.swipe,
                                    [user_id |-> a, target_id |-> a,
                                     action |-> "like", created_at |-> now])
              /\ resp'.body = [ok |-> TRUE, match |-> TRUE]
              /\ MatchesFor(db'.match, a, a) # {}
              /\ MatchesFor(db.match, a, a) = {}
                    => db'.match = Append(db.match,
                                          [user_a |-> a, user_b |-> a,
                                           created_at |-> now]))]_vars

(* With no earlier swipes, 1 liked 1: match = true and the Match (1, 1).   *)
C16_Witness ==
    /\ IsSwipe(resp, 1, 1, "like")
    /\ resp.body.match = TRUE
    /\ Triples(db.swipe) = << <<1, 1, "like">> >>
    /\ Len(db.match) = 1
    /\ db.match[1].user_a = 1 /\ db.match[1].user_b = 1

(* The header authenticates nobody: it is missing, or every session that  *)
(* carries its token, if there is one, has expired.                        *)
Rejected(authorization) ==
    \/ authorization = None
    \/ \A i \in DOMAIN db.session :
          HeaderOf(db.session[i]) = authorization => db.session[i].expires_at <= now

BearerOps == {"get_me", "update_me", "discover", "swipe", "matches"}

(* The response r is a 401 that leaves the store as it is.                 *)
Refused(r) == r.status = 401 /\ r.db = db

(* C17.  Every bearer-protected operation (GET /me, PUT /me, GET /discover,*)
(* POST /swipe, GET /matches) called without a header, with a token no     *)
(* session carries or with the token of an expired session is answered 401 *)
(* and leaves the user, session, swipe and match collections as they were: *)
(* no swipe is recorded and no match is created.                           *)
C17_UnauthorizedChangesNothing ==
    /\ [](\A authorization \in ServiceHeaders :
             Rejected(authorization)
             => /\ Refused(get_me(db, now, authorization))
                /\ \A update \in ProfileUpdates :
                      Refused(update_me(db, now, authorization, update))
                /\ Refused(discover(db, now, authorization))
                /\ \A payload \in ServicePayloads :
                      Refused(swipe(db, now, authorization, payload))
                /\ Refused(matches(db, now, authorization)))
    /\ [][(resp'.op \in BearerOps /\ resp'.user = None)
          => (/\ resp'.status = 401
              /\ db'.user = db.user /\ db'.session = db.session
              /\ db'.swipe = db.swipe /\ db'.match = db.match)]_vars

(* A like sent with the token of an expired session, or one no session     *)
(* carries, was refused; the store holds users, sessions, swipes and a     *)
(* Match.                                                                  *)
C17_Witness ==
    /\ resp.op = "swipe" /\ resp.status = 401
    /\ resp.payload[1].action = "like"
    /\ resp.body = [detail |-> "Invalid or expired token"]
    /\ Rejected(Bearer("tok1"))
    /\ \E i \in DOMAIN db.session :
          HeaderOf(db.session[i]) = Bearer("tok1")
    /\ Len(db.match) = 1

(* A profile update sent without a header was refused.                     *)
C17_WitnessMissing ==
    /\ resp.op = "update_me" /\ resp.status = 401
    /\ resp.payload[1].bio = Some("hello")
    /\ resp.body = [detail |-> "Missing authorization header"]

(* C18.  Sessions are never revoked or rotated: every step of every        *)
(* handler keeps the sessions there are, in place and unchanged, a login   *)
(* that succeeds adds one; so the token of every session that has not      *)
(* expired authenticates the user of the session, whatever logins, profile *)
(* updates and swipes came later.                                          *)
C18_SessionsNeverRevoked ==
    /\ [](\A i \in DOMAIN db.session :
             db.session[i].expires_at > now
             => caller(db, now, HeaderOf(db.session[i]))
                    = Some(db.session[i].user_id))
    /\ [][/\ IsPrefix(db.session, db'.session)
          /\ (resp'.op = "login" /\ resp'.status = 200)
                => Len(db'.session) = Len(db.session) + 1]_vars

(* Alice logged in once more, updated the profile and swiped: the token of *)
(* the first login still authenticates Alice.                              *)
C18_Witness ==
    /\ Len(db.session) = 4
    /\ db.session[2].user_id = 1
    /\ db.session[4].user_id = 1
    /\ db.user[1].updated_at = now
    /\ Cardinality(SwipesToday) > 0
    /\ resp.op = "get_me" /\ resp.status = 200 /\ resp.user = Some(1)
    /\ caller(db, now, HeaderOf(db.session[2])) = Some(1)

(* The Match records user u is a side of, by their places in the store.    *)
MatchesOf(ms, u) ==
    SelectSeq([i \in DOMAIN ms |-> i],
              LAMBDA i : ms[i].user_a = u \/ ms[i].user_b = u)

(* The other side of a Match record of u.                                  *)
Partner(m, u) == IF m.user_a = u THEN m.user_b ELSE m.user_a

(* C19.  GET /matches takes the stored pair as unordered: for a user U it  *)
(* returns one entry per Match record that has U as user_a or as user_b,   *)
(* in store order, the entry being the other user of the record without    *)
(* the password hash; so after a mutual like of A and B the matches of A   *)
(* hold B and the matches of B hold A, whoever made the Match.             *)
C19_MatchesUnordered ==
    [][(resp'.op = "matches" /\ resp'.status = 200)
       => LET u == resp'.user[1]
              mine == MatchesOf(db'.match, u)
              entries == resp'.body.matches
          IN  /\ Len(entries) = Len(mine)
              /\ \A k \in DOMAIN entries :
                    /\ entries[k].id = Partner(db'.match[mine[k]], u)
                    /\ entries[k]._id = ObjectId(entries[k].id)
                    /\ "password_hash" \notin DOMAIN entries[k]
              /\ \A a \in UserIds :
                    (a # u /\ MatchesFor(db'.match, a, u) # {})
                    => \E k \in DOMAIN entries : entries[k].id = a]_vars

(* Bob's like made the Match (2, 1); the matches of Alice hold Bob.        *)
C19_Witness ==
    /\ resp.op = "matches" /\ resp.status = 200 /\ resp.user = Some(1)
    /\ Len(db.match) = 1
    /\ db.match[1].user_a = 2 /\ db.match[1].user_b = 1
    /\ Len(resp.body.matches) = 1
    /\ resp.body.matches[1].id = 2

(* The same Match; the matches of Bob hold Alice.                          *)
C19_WitnessMaker ==
    /\ resp.op = "matches" /\ resp.status = 200 /\ resp.user = Some(2)
    /\ Len(db.match) = 1
    /\ db.match[1].user_a = 2 /\ db.match[1].user_b = 1
    /\ Len(resp.body.matches) = 1
    /\ resp.body.matches[1].id = 1

(* Alice's like made the Match (1, 2); the matches of Bob hold Alice.      *)
C19_WitnessReverse ==
    /\ resp.op = "matches" /\ resp.status = 200 /\ resp.user = Some(2)
    /\ Len(db.match) = 1
    /\ db.match[1].user_a = 1 /\ db.match[1].user_b = 2
    /\ Len(resp.body.matches) = 1
    /\ resp.body.matches[1].id = 1

(* C20.  The swipe sequence has no rollback: a request that ends with a    *)
(* store failure leaves the store as its completed steps made it, the      *)
(* swipe it appended included, so likes in both directions with no Match   *)
(* of the pair can be there; a later like by either of the two that        *)
(* completes returns match = true and a Match of the pair exists then.     *)
C20_NoRollback ==
    /\ [][/\ IsPrefix(db.swipe, db'.swipe)
          /\ IsPrefix(db.match, db'.match)
          /\ \A w \in FailWorkers :
                (/\ req[w].pc \in {"record", "reciprocal", "exists", "insert"}
                 /\ req'[w].pc = "idle")
                => (resp'.status = 500 /\ db' = db)]_vars
    /\ [][\A w \in FailWorkers, a \in UserIds, b \in UserIds :
             (/\ req[w].pc = "return" /\ req'[w].pc = "idle"
              /\ a # b
              /\ IsSwipe(resp', a, b, "like")
              /\ HasLike(db'.swipe, b, a))
             => (/\ resp'.body.match = TRUE
                 /\ MatchesFor(db'.match, a, b) # {})]_vars

(* The like by 2 on 1 failed after its swipe was appended: likes in both   *)
(* directions, no Match, no request in flight.                             *)
C20_Witness ==
    /\ Triples(db.swipe) = << <<1, 2, "like">>, <<2, 1, "like">> >>
    /\ db.match = <<>>
    /\ resp.op = "swipe" /\ resp.status = 500 /\ resp.user = Some(2)
    /\ \A w \in Workers : req[w].pc = "idle"

(* After that failure 1 liked 2 again: that like made the Match (1, 2).    *)
C20_WitnessLaterLike ==
    /\ Triples(db.swipe) = << <<1, 2, "like">>, <<2, 1, "like">>, <<1, 2, "like">> >>
    /\ Len(db.match) = 1
    /\ db.match[1].user_a = 1 /\ db.match[1].user_b = 2
    /\ IsSwipe(resp, 1, 2, "like")
    /\ resp.body.match = TRUE

====
